---- MODULE Spec2Model ----
(***************************************************************************)
(* phetour: a static site generator.  One run of the program loads the     *)
(* identifier registry (lock.xml), loads every post under input/posts,     *)
(* builds the output tree and saves the registry.  The model follows       *)
(* main() step by step over any number of runs; the pure helpers           *)
(* (KeyIDToHex, the custom-syntax parser) are operators that are also      *)
(* explored on their own under SpecHex and SpecParse.                      *)
(***************************************************************************)
EXTENDS Integers, Sequences, FiniteSets, TLC

VARIABLES
    pc,        \* position of main(), "start" before the first run and "exit" after a run
    err,       \* the error main() panicked with in this run ("" when none)
    lockFile,  \* ./lock.xml on disk
    keys,      \* keylock.Keys of the running (or last) process
    call,      \* the latest AssureKey call of this process: argument, result
    tags,      \* taxonomy.Tags
    posts,     \* source.Posts
    walk,      \* files filepath.Walk has still to visit
    cur,       \* the post GetPostDocument / ProcessPostMeta is working on
    idx,       \* index of the next post or tag Build's current loop renders
    out,       \* ./output on disk
    doc,       \* the document the current build step has composed
    hist,      \* history: the runs started and every (key, id) AssureKey returned (SpecRuns)
    hexIn,     \* argument of the latest KeyIDToHex evaluation (SpecHex)
    hexOut,    \* its result
    src,       \* custom-syntax source handed to ParseCustomSyntax (SpecParse)
    parsed     \* its result

vars == <<pc, err, lockFile, keys, call, tags, posts, walk, cur, idx, out, doc,
          hist, hexIn, hexOut, src, parsed>>

progVars == <<pc, err, lockFile, keys, call, tags, posts, walk, cur, idx, out, doc, hist>>
hexVars == <<hexIn, hexOut>>
parseVars == <<src, parsed>>

----------------------------------------------------------------------------
(* Bounds of the model *)

\* number of post files (not counting ignored ones) under input/posts in one run
MaxPosts == 2
\* small identifiers explored exhaustively by SpecHex (plus the edge values)
MaxHexLow == 40
\* number of lines of a custom-syntax source explored by SpecParse
MaxLines == 5
\* number of runs of the program whose history SpecRuns records
MaxRuns == 2

Labels == {"p", "q"}


Range(s) == {s[i] : i \in 1..Len(s)}

IsPrefix(s, t) == Len(s) <= Len(t) /\ SubSeq(t, 1, Len(s)) = s

NoDup(s) == \A i, j \in 1..Len(s) : i # j => s[i] # s[j]

----------------------------------------------------------------------------
(* strconv.Itoa / strconv.Atoi on the decimal digits Save writes *)

DigitChars == <<"0", "1", "2", "3", "4", "5", "6", "7", "8", "9">>

RECURSIVE Itoa(_)
Itoa(n) == IF n < 10 THEN <<DigitChars[n + 1]>>
           ELSE Itoa(n \div 10) \o <<DigitChars[(n % 10) + 1]>>

DigitValue(c) == CHOOSE d \in 0..9 : DigitChars[d + 1] = c

IsDigit(c) == \E d \in 0..9 : DigitChars[d + 1] = c

RECURSIVE AtoiDigits(_, _)
AtoiDigits(s, acc) == IF s = <<>> THEN acc
                      ELSE AtoiDigits(Tail(s), acc * 10 + DigitValue(Head(s)))

\* [ok, n]: ok is FALSE for the empty string and for any non-digit
Atoi(s) == IF s # <<>> /\ \A i \in 1..Len(s) : IsDigit(s[i])
           THEN [ok |-> TRUE, n |-> AtoiDigits(s, 0)]
           ELSE [ok |-> FALSE, n |-> 0]

----------------------------------------------------------------------------
(* Keylock *)

PostKey(name) == <<"POST", name>>
TagKey(label) == <<"TAG", label>>

HasKey(ks, value) == \E i \in 1..Len(ks) : ks[i].Value = value

\* the first entry whose Value matches, as the range loop finds it
FirstIndex(ks, value) == CHOOSE i \in 1..Len(ks) :
                            /\ ks[i].Value = value
                            /\ \A j \in 1..(i - 1) : ks[j].Value # value

AssureKey_Append(ks, value) ==
    [Keys |-> Append(ks, [ID |-> Len(ks) + 1, Value |-> value]),
     ID |-> Len(ks) + 1, found |-> FALSE]

AssureKey_Gap(ks, value) ==
    IF HasKey(ks, value)
    THEN [Keys |-> ks, ID |-> ks[FirstIndex(ks, value)].ID, found |-> TRUE]
    ELSE [Keys |-> Append(ks, [ID |-> 2 * Len(ks) + 1, Value |-> value]),
          ID |-> 2 * Len(ks) + 1, found |-> FALSE]

AssureKey_Len(ks, value) ==
    IF HasKey(ks, value)
    THEN [Keys |-> ks, ID |-> ks[FirstIndex(ks, value)].ID, found |-> TRUE]
    ELSE [Keys |-> Append(ks, [ID |-> IF Len(ks) = 0 THEN 1 ELSE Len(ks), Value |-> value]),
          ID |-> IF Len(ks) = 0 THEN 1 ELSE Len(ks), found |-> FALSE]

\* Keylock.AssureKey: the registry after the call and the id returned
AssureKey(ks, value) ==
    IF HasKey(ks, value)
    THEN [Keys |-> ks, ID |-> ks[FirstIndex(ks, value)].ID, found |-> TRUE]
    ELSE [Keys |-> Append(ks, [ID |-> Len(ks) + 1, Value |-> value]),
          ID |-> Len(ks) + 1, found |-> FALSE]

SaveEntries_Reversed(ks) ==
    [i \in 1..Len(ks) |-> [id |-> Itoa(ks[Len(ks) + 1 - i].ID),
                           value |-> ks[Len(ks) + 1 - i].Value]]

\* Keylock.Save: one <key id= value=> element per entry, in order
SaveEntries(ks) ==
    [i \in 1..Len(ks) |-> [id |-> Itoa(ks[i].ID), value |-> ks[i].Value]]

NoLockFile == [state |-> "absent", entries |-> <<>>]
\* a lock file a failed write left truncated
BrokenLockFile == [state |-> "broken", entries |-> <<>>]

\* GetKeylock: [ok, Keys]
LoadKeylock(file) ==
    IF file.state = "absent" THEN [ok |-> TRUE, Keys |-> <<>>]
    ELSE IF file.state = "broken" THEN [ok |-> FALSE, Keys |-> <<>>]
    ELSE IF \E i \in 1..Len(file.entries) : ~Atoi(file.entries[i].id).ok
         THEN [ok |-> FALSE, Keys |-> <<>>]
         ELSE [ok |-> TRUE,
               Keys |-> [i \in 1..Len(file.entries) |->
                           [ID |-> Atoi(file.entries[i].id).n,
                            Value |-> file.entries[i].value]]]

NoCall == [n |-> 0, Value |-> <<"", "">>, ID |-> 0, found |-> FALSE, lastNew |-> 0]

\* the record of one more AssureKey call with result r
Called(c, value, r) ==
    [n |-> c.n + 1, Value |-> value, ID |-> r.ID, found |-> r.found,
     lastNew |-> IF r.found THEN c.lastNew ELSE r.ID]

----------------------------------------------------------------------------
(* Taxonomy *)

HasLabel(tx, label) == \E i \in 1..Len(tx) : tx[i].Label = label

LabelIndex(tx, label) == CHOOSE i \in 1..Len(tx) :
                            /\ tx[i].Label = label
                            /\ \A j \in 1..(i - 1) : tx[j].Label # label

AssureLabelFromDocument_NoAppend(tx, ks, label, document) ==
    IF HasLabel(tx, label)
    THEN [Tags |-> tx, Keys |-> ks, ID |-> tx[LabelIndex(tx, label)].Key, minted |-> FALSE,
          r |-> [Keys |-> ks, ID |-> 0, found |-> FALSE]]
    ELSE LET r == AssureKey(ks, TagKey(label)) IN
         [Tags |-> Append(tx, [Label |-> label, Key |-> r.ID, Mentions |-> <<document>>]),
          Keys |-> r.Keys, ID |-> r.ID, minted |-> TRUE, r |-> r]

AssureLabelFromDocument_NoDedup(tx, ks, label, document) ==
    IF HasLabel(tx, label)
    THEN LET i == LabelIndex(tx, label) IN
         [Tags |-> [tx EXCEPT ![i].Mentions = Append(tx[i].Mentions, document)],
          Keys |-> ks, ID |-> tx[i].Key, minted |-> FALSE,
          r |-> [Keys |-> ks, ID |-> 0, found |-> FALSE]]
    ELSE LET r == AssureKey(ks, TagKey(label)) IN
         [Tags |-> Append(tx, [Label |-> label, Key |-> r.ID, Mentions |-> <<document>>]),
          Keys |-> r.Keys, ID |-> r.ID, minted |-> TRUE, r |-> r]

\* Taxonomy.AssureLabelFromDocument: the tags and the registry after the call,
\* the tag id returned, and the AssureKey call it made (minted), if any
AssureLabelFromDocument(tx, ks, label, document) ==
    IF HasLabel(tx, label)
    THEN LET i == LabelIndex(tx, label) IN
         IF \E m \in 1..Len(tx[i].Mentions) : tx[i].Mentions[m] = document
         THEN [Tags |-> tx, Keys |-> ks, ID |-> tx[i].Key, minted |-> FALSE,
               r |-> [Keys |-> ks, ID |-> 0, found |-> FALSE]]
         ELSE [Tags |-> [tx EXCEPT ![i].Mentions = Append(tx[i].Mentions, document)],
               Keys |-> ks, ID |-> tx[i].Key, minted |-> FALSE,
               r |-> [Keys |-> ks, ID |-> 0, found |-> FALSE]]
    ELSE LET r == AssureKey(ks, TagKey(label)) IN
         [Tags |-> Append(tx, [Label |-> label, Key |-> r.ID, Mentions |-> <<document>>]),
          Keys |-> r.Keys, ID |-> r.ID, minted |-> TRUE, r |-> r]

----------------------------------------------------------------------------
(* Canonical documents (etree) *)

\* a node: an element's tag ("#text" for character data), its href attribute
\* (<<>> when none) and its text content, both as sequences of strings
Node(tag, href, text) == [tag |-> tag, href |-> href, text |-> text]

\* a <meta> element: its <title value=...> child (if any) and the label
\* attributes of its <tag> children ("" for a tag without label)
NoMeta == [present |-> FALSE, hasTitle |-> FALSE, title |-> "", tags |-> <<>>]
Meta(title, labels) == [present |-> TRUE, hasTitle |-> TRUE, title |-> title, tags |-> labels]
MetaNoTitle(labels) == [present |-> TRUE, hasTitle |-> FALSE, title |-> "", tags |-> labels]
NoBody == [present |-> FALSE, children |-> <<>>]
Body(children) == [present |-> TRUE, children |-> children]

\* a document: the tag of its root element, the <meta> element (the root
\* itself or a child of the root), the <body> child of the root, and the
\* nodes that follow </meta> outside any <body>
Document(root, meta, body, rest) == [root |-> root, meta |-> meta, body |-> body, rest |-> rest]
NoDocument == Document("", NoMeta, NoBody, <<>>)

----------------------------------------------------------------------------
(* The custom-syntax parser.  A source is its sequence of lines; a line is *)
(* [k, v]: k is what the line's trimmed text starts with, v the words that *)
(* follow.  Go indexes are 0-based: line i of the code is lines[i + 1].    *)

Line(k, v) == [k |-> k, v |-> v]

\* strings.HasPrefix(strings.TrimSpace(line), "```")
IsFence(line) == line.k = "fence"

ParseResult(status, msg, line, d) == [status |-> status, msg |-> msg, line |-> line, doc |-> d]

\* the texts of lines[from+1 .. to] (Go lines[from:to])
RECURSIVE LineTexts(_, _, _)
LineTexts(lines, from, to) ==
    IF from >= to THEN <<>>
    ELSE lines[from + 1].v \o LineTexts(lines, from + 1, to)

\* the closing fence search of parseCodeBlock
RECURSIVE FindFence(_, _)
FindFence(lines, endIdx) ==
    IF endIdx < Len(lines) /\ ~IsFence(lines[endIdx + 1])
    THEN FindFence(lines, endIdx + 1)
    ELSE endIdx

\* parseCodeBlock: pandoc is what the external converter does with the block:
\* "html" (converted), "fail" (raw text kept), "empty" (output without a root
\* element, whose Copy() dereferences nil)
parseCodeBlock(lines, startIdx, pandoc) ==
    LET endIdx == FindFence(lines, startIdx + 1) IN
    IF endIdx >= Len(lines)
    THEN [status |-> "error", line |-> startIdx + 1, next |-> startIdx, elem |-> Node("", <<>>, <<>>)]
    ELSE IF pandoc = "fail"
    THEN [status |-> "ok", line |-> 0, next |-> endIdx + 1,
          elem |-> Node("code", <<>>, LineTexts(lines, startIdx + 1, endIdx))]
    ELSE IF pandoc = "empty"
    THEN [status |-> "panic", line |-> 0, next |-> endIdx + 1, elem |-> Node("", <<>>, <<>>)]
    ELSE [status |-> "ok", line |-> 0, next |-> endIdx + 1,
          elem |-> Node("code", <<>>, <<"html">> \o LineTexts(lines, startIdx + 1, endIdx))]

\* the end of a run of plain text lines that starts at i
RECURSIVE TextEnd(_, _)
TextEnd(lines, i) ==
    IF i < Len(lines) /\ lines[i + 1].k = "text" THEN TextEnd(lines, i + 1) ELSE i

\* parseContent from line i on, body being the children created so far
RECURSIVE parseContent(_, _, _, _)
parseContent(lines, i, body, pandoc) ==
    IF i >= Len(lines) THEN [status |-> "ok", line |-> 0, body |-> body]
    ELSE LET line == lines[i + 1] IN
         IF IsFence(line)
         THEN LET cb == parseCodeBlock(lines, i, pandoc) IN
              IF cb.status # "ok"
              THEN [status |-> cb.status, line |-> cb.line, body |-> body]
              ELSE parseContent(lines, cb.next, Append(body, cb.elem), pandoc)
         ELSE IF line.k = "bold"
         THEN parseContent(lines, i + 1, Append(body, Node("bold", <<>>, line.v)), pandoc)
         ELSE IF line.k = "item"
         THEN parseContent(lines, i + 1, Append(body, Node("item", <<>>, line.v)), pandoc)
         ELSE IF line.k = "link"
         THEN parseContent(lines, i + 1,
                  Append(body, Node("link", <<line.v[1]>>,
                                    IF Len(line.v) > 1 THEN Tail(line.v) ELSE line.v)),
                  pandoc)
         ELSE IF line.k = "text"
         THEN LET e == TextEnd(lines, i + 1) IN
              parseContent(lines, e, Append(body, Node("text", <<>>, LineTexts(lines, i, e))), pandoc)
         ELSE parseContent(lines, i + 1, body, pandoc)

\* Go lines[2:]
ContentLines(lines) == SubSeq(lines, 3, Len(lines))

\* ParseCustomSyntax
ParseCustomSyntax(lines, pandoc) ==
    IF Len(lines) < 2
    THEN ParseResult("error", "file must have at least 2 lines for metadata", 0, NoDocument)
    ELSE IF ~(lines[1].k = "title" /\ lines[1].v # <<>>)
    THEN ParseResult("error", "invalid title format", 0, NoDocument)
    ELSE IF lines[2].k # "tags"
    THEN ParseResult("error", "invalid tags format", 0, NoDocument)
    ELSE LET pcr == parseContent(ContentLines(lines), 0, <<>>, pandoc) IN
         IF pcr.status = "error"
         THEN ParseResult("error", "unclosed code block starting at line", pcr.line, NoDocument)
         ELSE IF pcr.status = "panic"
         THEN ParseResult("panic", "nil pointer dereference", 0, NoDocument)
         ELSE ParseResult("ok", "", 0,
                  Document("document", Meta(lines[1].v[1], lines[2].v), Body(pcr.body), <<>>))

----------------------------------------------------------------------------
(* Address encoding *)

HexChars == <<"0", "1", "2", "3", "4", "5", "6", "7", "8", "9",
              "a", "b", "c", "d", "e", "f">>
RECURSIVE HexDigits(_, _)
HexDigits(n, chars) == IF n < 16 THEN <<chars[n + 1]>>
                       ELSE HexDigits(n \div 16, chars) \o <<chars[(n % 16) + 1]>>

RECURSIVE ZeroPad(_, _)
ZeroPad(s, width) == IF Len(s) >= width THEN s ELSE ZeroPad(<<"0">> \o s, width)

KeyIDToHex_Width2(id) == <<"0", "x">> \o ZeroPad(HexDigits(id, HexChars), 2)

\* KeyIDToHex: fmt.Sprintf("0x%04x", id), as the sequence of its characters
KeyIDToHex(id) == <<"0", "x">> \o ZeroPad(HexDigits(id, HexChars), 4)

HexValue(c) == CHOOSE d \in 0..15 : HexChars[d + 1] = c

RECURSIVE ParseHex(_, _)
ParseHex(s, acc) == IF s = <<>> THEN acc
                    ELSE ParseHex(Tail(s), acc * 16 + HexValue(Head(s)))

----------------------------------------------------------------------------
(* The posts directory.  AllFiles is every file that may be present, in   *)
(* the lexical order filepath.Walk visits them; two of them share a name. *)

File(dir, name) == [dir |-> dir, name |-> name]

AllFiles == <<File("a", "x"), File("a", "y"), File("a", "~draft"), File("b", "x")>>

\* info.Name()[0] == '~'
IsIgnored(name) == name = "~draft"

RECURSIVE Pick(_, _)
Pick(S, i) == IF i > Len(AllFiles) THEN <<>>
              ELSE (IF i \in S THEN <<AllFiles[i]>> ELSE <<>>) \o Pick(S, i + 1)

\* the walks of the directories the model considers
Walks == {Pick(S, 1) : S \in {T \in SUBSET (1..Len(AllFiles)) :
              Cardinality({i \in T : ~IsIgnored(AllFiles[i].name)}) <= MaxPosts}}

----------------------------------------------------------------------------
(* The contents a post file may have.  kind is what GetPostDocument finds: *)
(* "unreadable" (os.ReadFile fails), "custom" (first line starts with      *)
(* title:), "xml" (well-formed XML), "legacy" (not well-formed, has        *)
(* </meta>, well-formed once wrapped), "legacybad" (not even then),        *)
(* "garbage" (not well-formed, no </meta>).                                *)

Content(kind, lines, d) == [kind |-> kind, lines |-> lines, doc |-> d]

TitleLine == Line("title", <<"T">>)

Contents == {
    Content("unreadable", <<>>, NoDocument),
    Content("custom", <<TitleLine, Line("tags", <<"p", "q">>), Line("text", <<"World">>)>>, NoDocument),
    Content("custom", <<TitleLine, Line("tags", <<"q">>), Line("fence", <<>>),
                        Line("text", <<"c">>), Line("fence", <<>>)>>, NoDocument),
    Content("custom", <<TitleLine, Line("tags", <<"p">>), Line("bold", <<"b">>),
                        Line("fence", <<>>), Line("text", <<"c">>)>>, NoDocument),
    Content("custom", <<TitleLine>>, NoDocument),
    Content("xml", <<>>, Document("document", Meta("T", <<"p", "p">>),
                            Body(<<Node("text", <<>>, <<"t">>), Node("script", <<>>, <<"s">>),
                                   Node("link", <<"h">>, <<"l">>)>>), <<>>)),
    Content("xml", <<>>, Document("meta", Meta("T", <<"q">>), NoBody, <<>>)),
    Content("xml", <<>>, Document("post", Meta("T", <<>>), NoBody, <<>>)),
    Content("xml", <<>>, Document("document", MetaNoTitle(<<"p">>), Body(<<>>), <<>>)),
    Content("xml", <<>>, Document("document", Meta("", <<"p">>), Body(<<>>), <<>>)),
    Content("xml", <<>>, Document("document", Meta("T", <<"q", "">>), Body(<<>>), <<>>)),
    Content("legacy", <<>>, Document("document", Meta("T", <<>>),
                               Body(<<Node("#text", <<>>, <<"loose">>)>>), <<>>)),
    Content("legacybad", <<>>, NoDocument),
    Content("garbage", <<>>, NoDocument) }

\* what the external markdown converter may do with a code block
PandocOutcomes == {"html", "fail", "empty"}

\* GetPostDocument up to the parsed document (lines 71-105)
ReadPostDocument(c, pandoc) ==
    IF c.kind = "unreadable"
    THEN ParseResult("error", "failed reading post document", 0, NoDocument)
    ELSE IF Len(c.lines) >= 1 /\ c.lines[1].k = "title"
    THEN LET r == ParseCustomSyntax(c.lines, pandoc) IN
         IF r.status = "error"
         THEN ParseResult("error", "failed parsing custom syntax document", r.line, NoDocument)
         ELSE r
    ELSE IF c.kind \in {"xml", "legacy"}
    THEN ParseResult("ok", "", 0, c.doc)
    ELSE ParseResult("error", "failed parsing post document", 0, NoDocument)

\* the meta element ProcessPostMeta and buildPost find
MetaOf(d) == IF d.root \in {"document", "meta"} THEN d.meta ELSE NoMeta

MetaError_EmptyTitleAccepted(d) ==
    IF ~MetaOf(d).present THEN "no meta tag found"
    ELSE IF ~MetaOf(d).hasTitle THEN "no title tag found"
    ELSE ""

\* the checks of ProcessPostMeta before its loop over the tags: "" when they pass
MetaError(d) ==
    IF ~MetaOf(d).present THEN "no meta tag found"
    ELSE IF ~MetaOf(d).hasTitle THEN "no title tag found"
    ELSE IF MetaOf(d).title = "" THEN "no value in title tag found"
    ELSE ""

NoCur == [name |-> "", key |-> 0, title |-> "", doc |-> NoDocument,
          todo |-> <<>>, labelKeys |-> <<>>]

Post(c) == [Name |-> c.name, Title |-> c.title, Key |-> c.key,
            Content |-> c.doc, Tags |-> c.labelKeys]

----------------------------------------------------------------------------
(* Generated pages *)

\* a generated document: its meta title, the tags of its meta section
\* (label and, when known, address) and the children of its body
Page(kind, title, metaTags, body) ==
    [kind |-> kind, title |-> title, metaTags |-> metaTags, body |-> body]

\* an index.xml a failed write left unfinished
PartialPage == Page("partial", "", <<>>, <<>>)

Link(id, label) ==
    Node("link", <<"/">> \o KeyIDToHex(id) \o <<"/">>, KeyIDToHex(id) \o <<" - ", label>>)

\* the tagKey lookup of buildPost: 0 when the label is unknown
TagKeyOf(tx, label) == IF HasLabel(tx, label) THEN tx[LabelIndex(tx, label)].Key ELSE 0

IsAllowedTag(tag) == tag \in {"bold", "text", "code", "item", "link"}

KeepBodyChild_All(n) == TRUE

\* the whitelist filter of buildPost over the children of <body>
KeepBodyChild(n) == n.tag = "#text" \/ IsAllowedTag(n.tag)

\* the same filter in the fallback without <body>, which drops blank text
KeepLooseChild(n) == IF n.tag = "#text" THEN n.text # <<>> ELSE IsAllowedTag(n.tag)

RECURSIVE MetaTagRefs(_, _)
MetaTagRefs(labels, tx) ==
    IF labels = <<>> THEN <<>>
    ELSE <<[label |-> Head(labels),
            id |-> IF TagKeyOf(tx, Head(labels)) > 0
                   THEN KeyIDToHex(TagKeyOf(tx, Head(labels))) ELSE <<>>]>>
         \o MetaTagRefs(Tail(labels), tx)

RECURSIVE TagLinks(_, _)
TagLinks(labels, tx) ==
    IF labels = <<>> THEN <<>>
    ELSE (IF Head(labels) # "" /\ TagKeyOf(tx, Head(labels)) > 0
          THEN <<Link(TagKeyOf(tx, Head(labels)), Head(labels))>> ELSE <<>>)
         \o TagLinks(Tail(labels), tx)

\* buildPost: the document it writes to <address>/index.xml
PostPage(post, tx) ==
    LET meta == MetaOf(post.Content)
        d == post.Content
        head == IF meta.present
                THEN (IF meta.hasTitle /\ meta.title # ""
                      THEN <<Node("bold", <<>>, <<meta.title>>)>> ELSE <<>>)
                     \o TagLinks(meta.tags, tx)
                ELSE <<>>
        copied == IF d.root = "document" /\ d.body.present
                  THEN SelectSeq(d.body.children, KeepBodyChild)
                  ELSE IF d.root = "document"
                  THEN SelectSeq(d.rest, KeepLooseChild)
                  ELSE <<>>
    IN Page("post", IF meta.present /\ meta.hasTitle THEN meta.title ELSE "",
            IF meta.present THEN MetaTagRefs(meta.tags, tx) ELSE <<>>,
            head \o copied)

\* the title buildTag finds for a mention: "" when no post has that id
PostTitleOf(ps, id) ==
    IF \E i \in 1..Len(ps) : ps[i].Key = id
    THEN ps[CHOOSE i \in 1..Len(ps) :
               ps[i].Key = id /\ \A j \in 1..(i - 1) : ps[j].Key # id].Title
    ELSE ""

RECURSIVE MentionLinks(_, _)
MentionLinks(mentions, ps) ==
    IF mentions = <<>> THEN <<>>
    ELSE (IF PostTitleOf(ps, Head(mentions)) # ""
          THEN <<Link(Head(mentions), PostTitleOf(ps, Head(mentions)))>> ELSE <<>>)
         \o MentionLinks(Tail(mentions), ps)

\* buildTag: the document it writes to <address>/index.xml
TagPage(tag, ps) ==
    Page("tag", tag.Label, <<>>,
         <<Node("bold", <<>>, <<tag.Label>>)>> \o MentionLinks(tag.Mentions, ps))

Orders(n) == {f \in [1..n -> 1..n] : \A i, j \in 1..n : i # j => f[i] # f[j]}

SortFuncDesc_Ascending(s) ==
    {t \in {[i \in 1..Len(s) |-> s[f[i]]] : f \in Orders(Len(s))} :
        \A i, j \in 1..Len(t) : i < j => t[i].Key <= t[j].Key}

\* slices.SortFunc(s, -cmp.Compare(a.Key, b.Key)): the sort is not stable, so
\* any order of s that is descending in Key may result
SortFuncDesc(s) ==
    {t \in {[i \in 1..Len(s) |-> s[f[i]]] : f \in Orders(Len(s))} :
        \A i, j \in 1..Len(t) : i < j => t[i].Key >= t[j].Key}

Separator == Node("text", <<>>, <<"">>)

\* buildHomeCatalog: the document it writes to index.xml, from the sorted
\* posts and tags
HomePage(ps, tx) ==
    Page("home", "home", <<>>,
         [i \in 1..Len(ps) |-> Link(ps[i].Key, ps[i].Title)]
         \o <<Separator>>
         \o [i \in 1..Len(tx) |-> Link(tx[i].Key, tx[i].Label)])

\* ./output: whether directories of earlier runs are left in it, whether
\* ./output/xml exists, the index.xml of each address directory, the home
\* index.xml (a sequence of at most one page), whether the statics are copied
\* and whether the stylesheets are applied
NoOutput == [prev |-> FALSE, xml |-> FALSE, pages |-> <<>>, home |-> <<>>,
             statics |-> FALSE, styled |-> FALSE]

HasPage(o, dir) == \E i \in 1..Len(o.pages) : o.pages[i].dir = dir

\* doc.WriteToFile(<dir>/index.xml): replaces the file when it exists
WritePage(o, dir, page) ==
    IF HasPage(o, dir)
    THEN [o EXCEPT !.pages = [i \in 1..Len(o.pages) |->
                                 IF o.pages[i].dir = dir
                                 THEN [dir |-> dir, page |-> page] ELSE o.pages[i]]]
    ELSE [o EXCEPT !.pages = Append(o.pages, [dir |-> dir, page |-> page])]

----------------------------------------------------------------------------
(* main(), one action per step *)

\* before the first run: no lock file, no output
ProgInit ==
    /\ pc = "start"
    /\ err = ""
    /\ lockFile = NoLockFile
    /\ keys = <<>>
    /\ call = NoCall
    /\ tags = <<>>
    /\ posts = <<>>
    /\ walk = <<>>
    /\ cur = NoCur
    /\ idx = 0
    /\ out = NoOutput
    /\ doc = PartialPage
    /\ hist = [runs |-> 0, issued |-> {}]

NotParsed == ParseResult("none", "", 0, NoDocument)

Init ==
    /\ ProgInit
    /\ hexIn = <<>>
    /\ hexOut = <<>>
    /\ src = <<>>
    /\ parsed = NotParsed

Panic_Saves(e) == pc' = "save" /\ err' = e

\* panic(err): the process ends, nothing is saved
Panic(e) == pc' = "exit" /\ err' = e

\* what earlier runs left under ./output is opaque to a new process: Build
\* never reads it, it only removes it
LeftOver(o) ==
    [NoOutput EXCEPT !.prev = o.prev \/ o.xml]

\* a new process starts: main.go:5, GetKeylock
GetKeylockStep ==
    /\ pc \in {"start", "exit"}
    /\ LET r == LoadKeylock(lockFile) IN
       /\ keys' = r.Keys
       /\ IF r.ok THEN pc' = "loaded" /\ err' = ""
          ELSE Panic("failed reading lock file")
    /\ call' = NoCall
    /\ tags' = <<>>
    /\ posts' = <<>>
    /\ walk' = <<>>
    /\ cur' = NoCur
    /\ idx' = 0
    /\ doc' = PartialPage
    /\ out' = LeftOver(out)
    /\ UNCHANGED <<lockFile, hexVars, parseVars>>

GetKeylock == GetKeylockStep /\ UNCHANGED hist

\* main.go:10
GetTaxonomy ==
    /\ pc = "loaded"
    /\ tags' = <<>>
    /\ pc' = "source"
    /\ UNCHANGED <<err, lockFile, keys, call, posts, walk, cur, idx, out, doc, hist, hexVars, parseVars>>

\* GetSource up to the first callback of filepath.Walk; the walk fails when
\* the posts root cannot be read
GetSource ==
    /\ pc = "source"
    /\ posts' = <<>>
    /\ \/ \E w \in Walks : walk' = w /\ pc' = "walk" /\ err' = err
       \/ walk' = <<>> /\ Panic("failed reading post document folder")
    /\ UNCHANGED <<lockFile, keys, call, tags, cur, idx, out, doc, hist, hexVars, parseVars>>

\* the Walk callback on a directory entry it skips (posts.go:43)
SkipFile ==
    /\ pc = "walk"
    /\ walk # <<>>
    /\ IsIgnored(Head(walk).name)
    /\ walk' = Tail(walk)
    /\ UNCHANGED <<pc, err, lockFile, keys, call, tags, posts, cur, idx, out, doc, hist, hexVars, parseVars>>

\* GetPostDocument down to the loop of ProcessPostMeta
GetPostDocumentStep ==
    /\ pc = "walk"
    /\ walk # <<>>
    /\ ~IsIgnored(Head(walk).name)
    /\ \E c \in Contents, pandoc \in PandocOutcomes :
         LET r == ReadPostDocument(c, pandoc)
             a == AssureKey(keys, PostKey(Head(walk).name))
         IN IF r.status # "ok"
            THEN /\ Panic(r.msg)
                 /\ UNCHANGED <<keys, call, cur>>
            ELSE /\ keys' = a.Keys
                 /\ call' = Called(call, PostKey(Head(walk).name), a)
                 /\ IF MetaError(r.doc) # ""
                    THEN Panic(MetaError(r.doc)) /\ cur' = cur
                    ELSE /\ cur' = [name |-> Head(walk).name, key |-> a.ID,
                                    title |-> MetaOf(r.doc).title, doc |-> r.doc,
                                    todo |-> MetaOf(r.doc).tags, labelKeys |-> <<>>]
                         /\ pc' = "tags"
                         /\ err' = err
    /\ UNCHANGED <<lockFile, tags, posts, walk, idx, out, doc, hexVars, parseVars>>

GetPostDocument == GetPostDocumentStep /\ UNCHANGED hist

\* one turn of the loop of ProcessPostMeta over the tag elements
ProcessPostMetaTagStep ==
    /\ pc = "tags"
    /\ cur.todo # <<>>
    /\ IF Head(cur.todo) = ""
       THEN /\ Panic("no label found in a tag")
            /\ UNCHANGED <<keys, call, tags, cur>>
       ELSE LET r == AssureLabelFromDocument(tags, keys, Head(cur.todo), cur.key) IN
            /\ tags' = r.Tags
            /\ keys' = r.Keys
            /\ call' = IF r.minted THEN Called(call, TagKey(Head(cur.todo)), r.r) ELSE call
            /\ cur' = [cur EXCEPT !.todo = Tail(cur.todo),
                                  !.labelKeys = Append(cur.labelKeys, r.ID)]
            /\ UNCHANGED <<pc, err>>
    /\ UNCHANGED <<lockFile, posts, walk, idx, out, doc, hexVars, parseVars>>

ProcessPostMetaTag == ProcessPostMetaTagStep /\ UNCHANGED hist

\* ProcessPostMeta and GetPostDocument return; the callback appends the post
AppendPost ==
    /\ pc = "tags"
    /\ cur.todo = <<>>
    /\ posts' = Append(posts, Post(cur))
    /\ walk' = Tail(walk)
    /\ cur' = NoCur
    /\ pc' = "walk"
    /\ UNCHANGED <<err, lockFile, keys, call, tags, idx, out, doc, hist, hexVars, parseVars>>

\* GetSource returns the Source
GetSourceDone ==
    /\ pc = "walk"
    /\ walk = <<>>
    /\ pc' = "clear"
    /\ UNCHANGED <<err, lockFile, keys, call, tags, posts, walk, cur, idx, out, doc, hist, hexVars, parseVars>>

----------------------------------------------------------------------------
(* Build, one action per stage or loop turn; any stage may fail on I/O *)

\* build.go:43-57
BuildClear ==
    /\ pc = "clear"
    /\ \/ /\ out' = [NoOutput EXCEPT !.xml = TRUE]
          /\ pc' = "posts"
          /\ idx' = 1
          /\ err' = err
       \/ /\ Panic("failed to remove output directory")
          /\ UNCHANGED <<out, idx>>
       \/ /\ Panic("failed to create output directory")
          /\ out' = NoOutput
          /\ idx' = idx
    /\ UNCHANGED <<lockFile, keys, call, tags, posts, walk, cur, doc, hist, hexVars, parseVars>>

\* buildPost for posts[idx]
BuildPost ==
    /\ pc = "posts"
    /\ idx <= Len(posts)
    /\ LET page == PostPage(posts[idx], tags)
           dir == KeyIDToHex(posts[idx].Key)
       IN \/ /\ doc' = page
             /\ out' = WritePage(out, dir, page)
             /\ idx' = idx + 1
             /\ UNCHANGED <<pc, err>>
          \/ /\ Panic("failed to create post directory")
             /\ UNCHANGED <<out, doc, idx>>
          \/ /\ Panic("failed to write post index.xml")
             /\ doc' = page
             /\ out' = WritePage(out, dir, PartialPage)
             /\ idx' = idx
    /\ UNCHANGED <<lockFile, keys, call, tags, posts, walk, cur, hist, hexVars, parseVars>>

BuildPostsDone_Early ==
    /\ pc = "posts"
    /\ idx >= 2
    /\ pc' = "tagpages"
    /\ idx' = 1
    /\ UNCHANGED <<err, lockFile, keys, call, tags, posts, walk, cur, out, doc, hist, hexVars, parseVars>>

\* the loop over the posts ends
BuildPostsDone ==
    /\ pc = "posts"
    /\ idx > Len(posts)
    /\ pc' = "tagpages"
    /\ idx' = 1
    /\ UNCHANGED <<err, lockFile, keys, call, tags, posts, walk, cur, out, doc, hist, hexVars, parseVars>>

\* buildTag for tags[idx]
BuildTag ==
    /\ pc = "tagpages"
    /\ idx <= Len(tags)
    /\ LET page == TagPage(tags[idx], posts)
           dir == KeyIDToHex(tags[idx].Key)
       IN \/ /\ doc' = page
             /\ out' = WritePage(out, dir, page)
             /\ idx' = idx + 1
             /\ UNCHANGED <<pc, err>>
          \/ /\ Panic("failed to create tag directory")
             /\ UNCHANGED <<out, doc, idx>>
          \/ /\ Panic("failed to write tag index.xml")
             /\ doc' = page
             /\ out' = WritePage(out, dir, PartialPage)
             /\ idx' = idx
    /\ UNCHANGED <<lockFile, keys, call, tags, posts, walk, cur, hist, hexVars, parseVars>>

\* the loop over the tags ends
BuildTagsDone ==
    /\ pc = "tagpages"
    /\ idx > Len(tags)
    /\ pc' = "home"
    /\ idx' = 0
    /\ UNCHANGED <<err, lockFile, keys, call, tags, posts, walk, cur, out, doc, hist, hexVars, parseVars>>

\* buildHomeCatalog: sorts source.Posts and taxonomy.Tags in place
BuildHomeCatalog ==
    /\ pc = "home"
    /\ \E ps \in SortFuncDesc(posts), tx \in SortFuncDesc(tags) :
         /\ posts' = ps
         /\ tags' = tx
         /\ doc' = HomePage(ps, tx)
         /\ \/ /\ out' = [out EXCEPT !.home = <<HomePage(ps, tx)>>]
               /\ pc' = "statics"
               /\ err' = err
            \/ /\ Panic("failed to write home catalog")
               /\ out' = [out EXCEPT !.home = <<PartialPage>>]
    /\ UNCHANGED <<lockFile, keys, call, walk, cur, idx, hist, hexVars, parseVars>>

\* copyStatics
CopyStatics ==
    /\ pc = "statics"
    /\ \/ /\ out' = [out EXCEPT !.statics = TRUE]
          /\ pc' = "styles"
          /\ err' = err
       \/ /\ Panic("failed to copy static files")
          /\ out' = out
    /\ UNCHANGED <<lockFile, keys, call, tags, posts, walk, cur, idx, doc, hist, hexVars, parseVars>>

\* applyStylesheets
ApplyStylesheets ==
    /\ pc = "styles"
    /\ \/ /\ out' = [out EXCEPT !.styled = TRUE]
          /\ pc' = "save"
          /\ err' = err
       \/ /\ Panic("failed to apply stylesheets")
          /\ out' = out
    /\ UNCHANGED <<lockFile, keys, call, tags, posts, walk, cur, idx, doc, hist, hexVars, parseVars>>

\* main.go:22, Keylock.Save; a failed write leaves the old file or a broken one
Save ==
    /\ pc = "save"
    /\ \/ /\ lockFile' = [state |-> "ok", entries |-> SaveEntries(keys)]
          /\ pc' = "exit"
          /\ err' = ""
       \/ /\ Panic("failed writing lock file")
          /\ lockFile' \in {lockFile, BrokenLockFile}
    /\ UNCHANGED <<keys, call, tags, posts, walk, cur, idx, out, doc, hist, hexVars, parseVars>>

Next ==
    \/ GetKeylock
    \/ GetTaxonomy
    \/ GetSource
    \/ SkipFile
    \/ GetPostDocument
    \/ ProcessPostMetaTag
    \/ AppendPost
    \/ GetSourceDone
    \/ BuildClear
    \/ BuildPost
    \/ BuildPostsDone
    \/ BuildTag
    \/ BuildTagsDone
    \/ BuildHomeCatalog
    \/ CopyStatics
    \/ ApplyStylesheets
    \/ Save

Spec == Init /\ [][Next]_vars

----------------------------------------------------------------------------
(* The same program with its history recorded, over MaxRuns runs *)

\* the history after a step: one more run when a process starts, one more
\* (key, id) when AssureKey returned
Observed ==
    hist' = [runs |-> IF pc \in {"start", "exit"} THEN hist.runs + 1 ELSE hist.runs,
             issued |-> IF call'.n = call.n + 1
                        THEN hist.issued \cup {<<call'.Value, call'.ID>>}
                        ELSE hist.issued]

NextRuns ==
    \/ (GetKeylockStep /\ hist.runs < MaxRuns /\ Observed)
    \/ (GetPostDocumentStep /\ Observed)
    \/ (ProcessPostMetaTagStep /\ Observed)
    \/ GetTaxonomy
    \/ GetSource
    \/ SkipFile
    \/ AppendPost
    \/ GetSourceDone
    \/ BuildClear
    \/ BuildPost
    \/ BuildPostsDone
    \/ BuildTag
    \/ BuildTagsDone
    \/ BuildHomeCatalog
    \/ CopyStatics
    \/ ApplyStylesheets
    \/ Save

SpecRuns == Init /\ [][NextRuns]_vars

----------------------------------------------------------------------------
(* KeyIDToHex on its own: pairs of identifiers of the 4-digit address space *)

\* the largest identifier "%04x" renders in 4 digits
MaxAddress == 65535

HexIds == (1..MaxHexLow) \cup {255, 256, 4095, 4096, 4097, 43981, 65280, MaxAddress - 1, MaxAddress}

InitHex ==
    /\ ProgInit
    /\ hexIn \in {<<a, b>> : a \in HexIds, b \in HexIds}
    /\ hexOut = <<>>
    /\ src = <<>>
    /\ parsed = NotParsed

\* KeyIDToHex is evaluated on both identifiers
FormatAddresses ==
    /\ hexOut = <<>>
    /\ hexOut' = <<KeyIDToHex(hexIn[1]), KeyIDToHex(hexIn[2])>>
    /\ UNCHANGED <<hexIn, progVars, parseVars>>

NextHex == FormatAddresses

SpecHex == InitHex /\ [][NextHex]_vars

----------------------------------------------------------------------------
(* ParseCustomSyntax on its own: every source of up to MaxLines lines *)

FirstLines == {Line("title", <<"T">>), Line("title", <<>>)}
SecondLines == {Line("tags", <<>>), Line("tags", <<"p">>), Line("text", <<"w">>)}
BodyLines == {Line("fence", <<>>), Line("bold", <<"b">>), Line("item", <<"i">>),
              Line("link", <<"h">>), Line("link", <<"h", "l">>),
              Line("text", <<"w">>), Line("blank", <<>>)}

Sources ==
    UNION {{s \in [1..n -> FirstLines \cup SecondLines \cup BodyLines] :
              /\ s[1] \in FirstLines
              /\ n >= 2 => s[2] \in SecondLines
              /\ \A i \in 3..n : s[i] \in BodyLines} : n \in 1..MaxLines}

InitParse ==
    /\ ProgInit
    /\ hexIn = <<>>
    /\ hexOut = <<>>
    /\ src \in Sources
    /\ parsed = NotParsed

\* ParseCustomSyntax(content, path), whatever pandoc does with the code blocks
ParseSource ==
    /\ parsed = NotParsed
    /\ \E pandoc \in PandocOutcomes : parsed' = ParseCustomSyntax(src, pandoc)
    /\ UNCHANGED <<src, progVars, hexVars>>

NextParse == ParseSource

SpecParse == InitParse /\ [][NextParse]_vars

----------------------------------------------------------------------------
(* Properties *)

IDOf(ks, value) == ks[FirstIndex(ks, value)].ID

\* a step in which AssureKey was called (once)
AssureKeyCalled == call'.n = call.n + 1

\* C1: AssureKey(k) with k already present returns the id stored for k and
\* leaves the entry list unchanged; after any call k is present with the id
\* returned, and the registry grew by at most one entry.
C1_AssureKeyIdempotent ==
    [][AssureKeyCalled =>
         /\ HasKey(keys, call'.Value) =>
              /\ keys' = keys
              /\ call'.ID = IDOf(keys, call'.Value)
         /\ HasKey(keys', call'.Value)
         /\ IDOf(keys', call'.Value) = call'.ID
         /\ Len(keys') <= Len(keys) + 1
         /\ IsPrefix(keys, keys')]_vars

\* a call that found its key in a registry of several entries
C1_Witness == call.n >= 2 /\ call.found /\ Len(keys) >= 3

\* C2: a registry saved by Save and reloaded by GetKeylock holds the same
\* entries in the same order, and AssureKey gives every key its old id.
C2_SaveReloadRoundTrip ==
    [][(pc = "exit" /\ err = "" /\ pc' # pc) =>
         /\ pc' = "loaded"
         /\ keys' = keys
         /\ \A i \in 1..Len(keys) :
              /\ AssureKey(keys', keys[i].Value).ID = AssureKey(keys, keys[i].Value).ID
              /\ AssureKey(keys', keys[i].Value).Keys = keys']_vars

\* a registry of several entries reloaded from the file Save wrote
C2_Witness == pc = "loaded" /\ lockFile.state = "ok" /\ Len(keys) >= 3

\* C3: over any sequence of runs on the same registry file, aborted runs
\* included, a stable key receives the same id in every run that assures it.
C3_SameIdInEveryRun ==
    \A p, q \in hist.issued : p[1] = q[1] => p[2] = q[2]

\* C4: the ids of successive first-time AssureKey calls of one registry
\* lifetime increase by exactly 1, and the first on an empty registry is 1.
C4_MintedIdsIncreaseByOne ==
    [][(AssureKeyCalled /\ ~HasKey(keys, call'.Value)) =>
         /\ keys = <<>> => call'.ID = 1
         /\ call.lastNew # 0 => call'.ID = call.lastNew + 1
         /\ call'.lastNew = call'.ID]_vars

\* the third first-time call on a registry that started empty
C4_Witness == lockFile.state = "absent" /\ call.n >= 3 /\ ~call.found /\ call.ID = 3

\* C5: starting from an absent registry file, the entry at position i always
\* has id i, in memory and in the saved file, and no two entries share a key.
C5_EntryAtPositionHasItsId ==
    /\ \A i \in 1..Len(keys) : keys[i].ID = i
    /\ \A i, j \in 1..Len(keys) :
         i # j => keys[i].Value # keys[j].Value /\ keys[i].ID # keys[j].ID
    /\ lockFile.state = "ok" =>
         /\ LoadKeylock(lockFile).ok
         /\ \A i \in 1..Len(lockFile.entries) :
              /\ LoadKeylock(lockFile).Keys[i].ID = i
              /\ \A j \in 1..Len(lockFile.entries) :
                   i # j => lockFile.entries[i].value # lockFile.entries[j].value

\* a later run has added entries to a registry loaded from the file
C5_Witness ==
    /\ lockFile.state = "ok"
    /\ Len(lockFile.entries) >= 2
    /\ Len(keys) >= Len(lockFile.entries) + 2

BuildStages == {"clear", "posts", "tagpages", "home", "statics", "styles", "save"}

\* C6: in any build, two distinct content items (two posts, two tags, a post
\* and a tag) have different identifiers.
C6_DistinctItemsDistinctIds ==
    pc \in BuildStages =>
        /\ \A i, j \in 1..Len(posts) : i # j => posts[i].Key # posts[j].Key
        /\ \A i, j \in 1..Len(tags) : i # j => tags[i].Key # tags[j].Key
        /\ \A i \in 1..Len(posts) : \A j \in 1..Len(tags) : posts[i].Key # tags[j].Key

\* the mentions of the tag labelled l ("" has none)
MentionsOf(tx, label) == IF HasLabel(tx, label) THEN tx[LabelIndex(tx, label)].Mentions ELSE <<>>

\* C7: every tag's mentions hold each post id at most once; a repeated
\* AssureLabelFromDocument(label, postId) changes nothing and returns the
\* tag's id; mentions are only appended to.
C7_MentionsDeduplicatedAppendOnly ==
    [][/\ \A i \in 1..Len(tags') : NoDup(tags'[i].Mentions)
       /\ pc \notin {"start", "exit", "loaded"} =>
            \A i \in 1..Len(tags) :
               /\ HasLabel(tags', tags[i].Label)
               /\ TagKeyOf(tags', tags[i].Label) = tags[i].Key
               /\ IsPrefix(tags[i].Mentions, MentionsOf(tags', tags[i].Label))
       /\ (/\ pc = "tags" /\ pc' = "tags"
           /\ cur.todo # <<>>
           /\ cur.key \in Range(MentionsOf(tags, Head(cur.todo)))) =>
            /\ tags' = tags
            /\ cur'.labelKeys = Append(cur.labelKeys, TagKeyOf(tags, Head(cur.todo)))]_vars

\* a post has named the same label twice, and a tag has two mentions
C7_Witness ==
    /\ pc = "tags"
    /\ Len(cur.labelKeys) = 2
    /\ cur.labelKeys[1] = cur.labelKeys[2]
    /\ \E i \in 1..Len(tags) : Len(tags[i].Mentions) >= 2 /\ tags[i].Key = cur.labelKeys[1]

IsLowerHexDigit(c) == \E d \in 0..15 : HexChars[d + 1] = c

\* C8: for 1 <= id <= 65535, KeyIDToHex(id) is "0x" followed by exactly 4
\* lowercase hexadecimal digits of value id; distinct ids, distinct addresses.
C8_AddressFormat ==
    hexOut # <<>> =>
        /\ \A k \in 1..2 :
             (hexIn[k] >= 1 /\ hexIn[k] <= MaxAddress) =>
                 /\ Len(hexOut[k]) = 6
                 /\ hexOut[k][1] = "0" /\ hexOut[k][2] = "x"
                 /\ \A i \in 3..6 : IsLowerHexDigit(hexOut[k][i])
                 /\ ParseHex(SubSeq(hexOut[k], 3, 6), 0) = hexIn[k]
                 /\ hexIn[k] = 1 => hexOut[k] = <<"0", "x", "0", "0", "0", "1">>
                 /\ hexIn[k] = 255 => hexOut[k] = <<"0", "x", "0", "0", "f", "f">>
                 /\ hexIn[k] = 65535 => hexOut[k] = <<"0", "x", "f", "f", "f", "f">>
        /\ hexIn[1] # hexIn[2] => hexOut[1] # hexOut[2]

\* the addresses of 255 and 65535 have been formatted
C8_Witness == hexOut # <<>> /\ hexIn = <<255, 65535>>

\* the identifier a link of an index page points at
LinkId(n) == ParseHex(SubSeq(n.href, 4, 7), 0)

\* C9: the home index lists every post once, as links in descending
\* identifier order, then one separator text element, then every tag once,
\* as links in descending identifier order.
C9_HomeIndexDescending ==
    [][(pc = "home" /\ pc' = "statics") =>
         LET body == out'.home[1].body
             n == Len(posts)
             m == Len(tags)
         IN /\ Len(out'.home) = 1
            /\ Len(body) = n + 1 + m
            /\ body[n + 1] = Separator
            /\ \E f \in Orders(n) :
                 \A i \in 1..n : body[i] = Link(posts[f[i]].Key, posts[f[i]].Title)
            /\ \E g \in Orders(m) :
                 \A i \in 1..m : body[n + 1 + i] = Link(tags[g[i]].Key, tags[g[i]].Label)
            /\ \A i, j \in 1..n : i < j => LinkId(body[i]) >= LinkId(body[j])
            /\ \A i, j \in 1..m :
                 i < j => LinkId(body[n + 1 + i]) >= LinkId(body[n + 1 + j])]_vars

\* a home index whose posts and tags the sort has reordered
C9_Witness ==
    /\ pc = "statics"
    /\ Len(out.home) = 1
    /\ Len(posts) = 2 /\ posts[1].Name = "y" /\ posts[2].Name = "x"
    /\ Len(tags) = 2 /\ tags[1].Key > tags[2].Key /\ tags[1].Label = "q"

\* the 1-based line of the source file at which the code fence opens that no
\* later fence closes; 0 when every fence is closed
RECURSIVE OpenFence(_, _, _)
OpenFence(lines, i, openAt) ==
    IF i > Len(lines) THEN openAt
    ELSE IF IsFence(lines[i])
    THEN OpenFence(lines, i + 1, IF openAt = 0 THEN i ELSE 0)
    ELSE OpenFence(lines, i + 1, openAt)

UnclosedFenceLine(lines) == OpenFence(lines, 3, 0)

\* C10: a custom-syntax source with an opening code fence and no later closing
\* fence fails to load, and the error reports the 1-based line number of the
\* opening fence in the source file.
C10_UnclosedFenceReportsFileLine ==
    (parsed # NotParsed /\ UnclosedFenceLine(src) # 0) =>
        /\ parsed.status # "ok"
        /\ parsed.msg = "unclosed code block starting at line" =>
             parsed.line = UnclosedFenceLine(src)

IsElement(n) == n.tag # "#text"

IsWhitelisted(n) == n.tag \in {"bold", "text", "code", "item", "link"}

\* the errors buildPost returns: both come from the file system
BuildPostErrors == {"failed to create post directory", "failed to write post index.xml"}

\* C11: when a post with a body is rendered, the elements of the output body
\* are the title and the tag links buildPost adds, followed by exactly the
\* direct child elements of the parsed body whose tag is bold, text, code, item
\* or link, in their original order; no element with another tag is in the
\* output; buildPost fails only on the file system, whatever the body holds.
C11_WhitelistFilter ==
    [][(pc = "posts" /\ idx <= Len(posts)
        /\ posts[idx].Content.root = "document" /\ posts[idx].Content.body.present) =>
         LET children == posts[idx].Content.body.children
             kept == SelectSeq(children, IsWhitelisted)
             added == 1 + Len(posts[idx].Tags)
             written == SelectSeq(doc'.body, IsElement)
         IN /\ pc' = "exit" => err' \in BuildPostErrors
            /\ idx' = idx + 1 =>
                 /\ pc' = "posts"
                 /\ HasPage(out', KeyIDToHex(posts[idx].Key))
                 /\ \A i \in 1..Len(out'.pages) :
                      out'.pages[i].dir = KeyIDToHex(posts[idx].Key) => out'.pages[i].page = doc'
                 /\ Len(written) = added + Len(kept)
                 /\ SubSeq(written, added + 1, Len(written)) = kept
                 /\ \A i \in 1..Len(doc'.body) :
                      IsElement(doc'.body[i]) => IsWhitelisted(doc'.body[i])
                 /\ \A i \in 1..Len(children) :
                      (IsElement(children[i]) /\ ~IsWhitelisted(children[i])) =>
                          \A j \in 1..Len(doc'.body) : doc'.body[j].tag # children[i].tag]_vars

\* a page has been written for a post whose body holds a <script> element
\* between a <text> and a <link>
C11_Witness ==
    /\ pc = "posts"
    /\ idx >= 2
    /\ doc.kind = "post"
    /\ HasPage(out, KeyIDToHex(posts[idx - 1].Key))
    /\ posts[idx - 1].Content.body.present
    /\ \E i, j, k \in 1..Len(posts[idx - 1].Content.body.children) :
         /\ i < j /\ j < k
         /\ posts[idx - 1].Content.body.children[i].tag = "text"
         /\ posts[idx - 1].Content.body.children[j].tag = "script"
         /\ posts[idx - 1].Content.body.children[k].tag = "link"

\* C12: in every run Save is executed at most once, and only when the registry
\* load, the content loading and Build have all completed without error; no
\* AssureKey call follows Save; a run in which one of those steps fails ends
\* without executing Save and leaves the registry file as it was.
C12_SaveOnceAfterSuccess ==
    [][/\ lockFile' # lockFile => pc = "save"
       /\ pc' = "save" =>
            /\ pc = "styles"
            /\ err = "" /\ err' = ""
            /\ walk = <<>>
            /\ out'.xml /\ out'.statics /\ out'.styled
            /\ out'.home = <<HomePage(posts, tags)>>
       /\ pc = "save" => (pc' = "exit" /\ keys' = keys)
       /\ AssureKeyCalled => (pc \in {"walk", "tags"} /\ pc' # "save")
       /\ (pc' = "exit" /\ pc # "save") => (err' # "" /\ lockFile' = lockFile)
       /\ pc = "exit" => (pc' \in {"loaded", "exit"} /\ call' = NoCall /\ lockFile' = lockFile)]_vars

\* a run that minted keys and then failed, after an earlier run had saved:
\* the file still holds what the earlier run wrote
C12_Witness ==
    /\ pc = "exit"
    /\ err \notin {"", "failed writing lock file", "failed reading lock file"}
    /\ lockFile.state = "ok"
    /\ Len(lockFile.entries) >= 1
    /\ Len(keys) > Len(lockFile.entries)

\* the stages of Build in the order the specification gives them
StageOrder == <<"clear", "posts", "tagpages", "home", "statics", "styles", "save">>

StageRank(p) == CHOOSE r \in 1..Len(StageOrder) : StageOrder[r] = p

InBuild(p) == p \in {"clear", "posts", "tagpages", "home", "statics", "styles"}

\* every directory and file of o is still there in o2
OutputKept(o, o2) ==
    /\ o.xml => o2.xml
    /\ \A i \in 1..Len(o.pages) : HasPage(o2, o.pages[i].dir)
    /\ Len(o2.home) >= Len(o.home)
    /\ o.statics => o2.statics
    /\ o.styled => o2.styled

\* what the stages before p have written, and nothing of the stages after
StagesDoneBefore(p) ==
    /\ StageRank(p) >= 2 => out.xml
    /\ StageRank(p) = 1 => out.pages = <<>>
    /\ StageRank(p) = 2 =>
         /\ \A i \in 1..(idx - 1) : HasPage(out, KeyIDToHex(posts[i].Key))
         /\ \A i \in 1..Len(tags) : ~HasPage(out, KeyIDToHex(tags[i].Key))
         /\ \A i \in 1..Len(out.pages) :
              \E j \in 1..(idx - 1) : out.pages[i].dir = KeyIDToHex(posts[j].Key)
    /\ StageRank(p) >= 3 =>
         \A i \in 1..Len(posts) : HasPage(out, KeyIDToHex(posts[i].Key))
    /\ StageRank(p) = 3 =>
         \A i \in 1..Len(tags) : HasPage(out, KeyIDToHex(tags[i].Key)) <=> i < idx
    /\ StageRank(p) >= 4 =>
         \A i \in 1..Len(tags) : HasPage(out, KeyIDToHex(tags[i].Key))
    /\ \A i \in 1..Len(out.pages) : out.pages[i].page.kind \in {"post", "tag"}
    /\ StageRank(p) >= 5 <=> Len(out.home) = 1
    /\ StageRank(p) >= 5 => out.home[1].kind = "home"
    /\ StageRank(p) >= 6 <=> out.statics
    /\ StageRank(p) >= 7 <=> out.styled

\* C13: Build runs Clear, the posts in source order, the tags in order, the
\* home index, the statics and the transforms, in that order; a stage (and a
\* post or tag within a stage) starts only when everything before it has
\* finished without error; the first error ends Build and the run, no later
\* stage runs, and what was written before the failing stage stays on disk.
C13_StagesInOrder ==
    [][InBuild(pc) =>
         /\ err = ""
         /\ StagesDoneBefore(pc)
         /\ \/ /\ pc' = "exit"
               /\ err' # ""
               /\ pc # "clear" => OutputKept(out, out')
            \/ /\ pc' = pc
               /\ err' = ""
               /\ idx' = idx + 1
               /\ \/ pc = "posts" /\ idx <= Len(posts)
                        /\ HasPage(out', KeyIDToHex(posts[idx].Key))
                  \/ pc = "tagpages" /\ idx <= Len(tags)
                        /\ HasPage(out', KeyIDToHex(tags[idx].Key))
               /\ OutputKept(out, out')
            \/ /\ pc' = StageOrder[StageRank(pc) + 1]
               /\ err' = ""
               /\ pc = "posts" => idx > Len(posts)
               /\ pc = "tagpages" => idx > Len(tags)
               /\ pc' \in {"posts", "tagpages"} => idx' = 1
               /\ pc # "clear" => OutputKept(out, out')]_vars

\* Build failed while copying the statics: the pages and the home index it
\* wrote before are still in the output
C13_Witness ==
    /\ pc = "exit"
    /\ err = "failed to copy static files"
    /\ Len(out.pages) >= 3
    /\ Len(out.home) = 1
    /\ ~out.statics

\* the document has a meta element with a title element of non-empty value
HasTitledMeta(d) ==
    /\ d.root \in {"document", "meta"}
    /\ d.meta.present
    /\ d.meta.hasTitle
    /\ d.meta.title # ""

AllLabelled(d) == \A i \in 1..Len(d.meta.tags) : d.meta.tags[i] # ""

MetaErrors == {"no meta tag found", "no title tag found", "no value in title tag found",
               "no label found in a tag"}

Loading(p) == p \in {"loaded", "source", "walk", "tags"}

\* C14: a post file without meta element, without title element, with an
\* empty title value or with a tag element without label makes GetSource fail:
\* no file is passed over other than the ignored ones, only documents with a
\* titled meta and labelled tags become posts, Build starts only when the walk
\* is over without error, and a run that fails while loading writes no output.
C14_BadMetaAbortsRun ==
    [][Loading(pc) =>
         /\ out' = out
         /\ \A i \in 1..Len(posts') :
              HasTitledMeta(posts'[i].Content) /\ AllLabelled(posts'[i].Content)
         /\ pc' = "exit" => err' # ""
         /\ err' \in MetaErrors => pc' = "exit"
         /\ pc' = "clear" => (pc = "walk" /\ walk = <<>> /\ err = "" /\ posts' = posts)
         /\ (pc = "walk" /\ walk # <<>> /\ ~IsIgnored(Head(walk).name)) =>
              \/ pc' = "exit"
              \/ /\ pc' = "tags"
                 /\ walk' = walk /\ posts' = posts
                 /\ cur'.name = Head(walk).name
                 /\ HasTitledMeta(cur'.doc)
                 /\ cur'.todo = cur'.doc.meta.tags
                 /\ cur'.labelKeys = <<>>
         /\ (pc = "tags" /\ cur.todo # <<>>) =>
              IF Head(cur.todo) = ""
              THEN pc' = "exit" /\ err' = "no label found in a tag"
              ELSE /\ pc' = "tags"
                   /\ cur'.todo = Tail(cur.todo)
                   /\ Len(cur'.labelKeys) = Len(cur.labelKeys) + 1
                   /\ walk' = walk /\ posts' = posts
         /\ (pc \in {"walk", "tags"} /\ walk' # walk) =>
              /\ walk' = Tail(walk)
              /\ \/ IsIgnored(Head(walk).name) /\ posts' = posts
                 \/ /\ pc = "tags" /\ cur.todo = <<>>
                    /\ cur.name = Head(walk).name
                    /\ Len(posts') = Len(posts) + 1
                    /\ IsPrefix(posts, posts')
                    /\ posts'[Len(posts')].Name = cur.name
                    /\ posts'[Len(posts')].Content = cur.doc
                    /\ Len(cur.labelKeys) = Len(cur.doc.meta.tags)]_vars

\* a run that had loaded a post ended on a later file whose title is empty,
\* and no output was built
C14_Witness ==
    /\ pc = "exit"
    /\ err = "no value in title tag found"
    /\ Len(posts) = 1
    /\ out.pages = <<>>
    /\ ~out.xml

\* C15: once content loading has succeeded, every tag id in a post's tag-id
\* list is the id of exactly one tag, whose mentions contain the post's id;
\* every id in a tag's mentions is the id of a post whose tag-id list contains
\* the tag's id; so buildTag resolves every mention to a post and writes one
\* link for each.
C15_PostsAndTagsConsistent ==
    pc \in BuildStages =>
        /\ \A p \in 1..Len(posts) : \A t \in 1..Len(posts[p].Tags) :
             /\ Cardinality({i \in 1..Len(tags) : tags[i].Key = posts[p].Tags[t]}) = 1
             /\ \A i \in 1..Len(tags) :
                  tags[i].Key = posts[p].Tags[t] => posts[p].Key \in Range(tags[i].Mentions)
        /\ \A i \in 1..Len(tags) : \A m \in 1..Len(tags[i].Mentions) :
             /\ \E p \in 1..Len(posts) :
                  /\ posts[p].Key = tags[i].Mentions[m]
                  /\ tags[i].Key \in Range(posts[p].Tags)
             /\ PostTitleOf(posts, tags[i].Mentions[m]) # ""
        /\ \A i \in 1..Len(tags) :
             Len(TagPage(tags[i], posts).body) = 1 + Len(tags[i].Mentions)

\* the content is loaded: a tag is mentioned by two posts and a post names
\* two tags
C15_Witness ==
    /\ pc = "clear"
    /\ \E i \in 1..Len(tags) : Len(tags[i].Mentions) = 2
    /\ \E p \in 1..Len(posts) :
         Len(posts[p].Tags) = 2 /\ posts[p].Tags[1] # posts[p].Tags[2]

\* C16: Build consumes its inputs read-only: no step of Build changes the
\* posts of the Source or their order, the tags of the Taxonomy, their order
\* or their mentions, or the registry, so all are the same when Build returns
\* as when it was called.
C16_BuildReadsInputsOnly ==
    [][InBuild(pc) => (posts' = posts /\ tags' = tags /\ keys' = keys)]_vars

====
